---- MODULE Spec2Model ----
(***************************************************************************)
(* Field validation layer of gwascatalog.sumstat (types.py, _type_funcs.py) *)
(* as a state machine: every validation entry point is one action that      *)
(* takes a raw value and leaves the value it was called with and its        *)
(* outcome (a canonical value, or the error it raised) in the state.        *)
(*                                                                          *)
(* Python values are records [t, s, n]: a str is its sequence of            *)
(* one-character strings, an int its number, None has neither.              *)
(* pydantic's Annotated metadata is applied in the order pydantic v2        *)
(* applies it: BeforeValidator, then the type with the Field constraints,   *)
(* then AfterValidator.                                                     *)
(***************************************************************************)
EXTENDS Integers, Sequences, FiniteSets, TLC

VARIABLES call, arg, res

vars == <<call, arg, res>>

----------------------------------------------------------------------------
(* Bounds of the input space *)

MaxStrLen == 2
MaxAlleleLen == 3
MaxChromNum == 28
MaxPosNum == 2
MaxExtraParts == 1
MaxNaLen == 3

----------------------------------------------------------------------------
(* Python values *)

StrV(s) == [t |-> "str", s |-> s, n |-> 0]
IntV(n) == [t |-> "int", s |-> <<>>, n |-> n]
FloatV(n) == [t |-> "float", s |-> <<>>, n |-> n]
EnumV(s) == [t |-> "enum", s |-> s, n |-> 0]
NoneV == [t |-> "none", s |-> <<>>, n |-> 0]

(* Outcome of a call: the value returned, or the error raised *)
Ok(v) == [ok |-> TRUE, val |-> v, err |-> "", raw |-> NoneV, bad |-> {}]
Err(kind, rawv, badset) ==
    [ok |-> FALSE, val |-> NoneV, err |-> kind, raw |-> rawv, bad |-> badset]
NoResult == [ok |-> FALSE, val |-> NoneV, err |-> "not_called", raw |-> NoneV, bad |-> {}]

----------------------------------------------------------------------------
(* Python str and int builtins *)

Digits == {"0", "1", "2", "3", "4", "5", "6", "7", "8", "9"}
Whitespace == {" "}

DigitVal(c) ==
    CASE c = "0" -> 0 [] c = "1" -> 1 [] c = "2" -> 2 [] c = "3" -> 3
      [] c = "4" -> 4 [] c = "5" -> 5 [] c = "6" -> 6 [] c = "7" -> 7
      [] c = "8" -> 8 [] c = "9" -> 9

DigitChar(d) == <<"0", "1", "2", "3", "4", "5", "6", "7", "8", "9">>[d + 1]

CharSet(s) == {s[i] : i \in 1..Len(s)}

RECURSIVE LStrip(_)
LStrip(s) == IF s # <<>> /\ Head(s) \in Whitespace THEN LStrip(Tail(s)) ELSE s

RECURSIVE RStrip(_)
RStrip(s) ==
    IF s # <<>> /\ s[Len(s)] \in Whitespace THEN RStrip(SubSeq(s, 1, Len(s) - 1)) ELSE s

(* str.strip() *)
Strip(s) == RStrip(LStrip(s))

RECURSIVE NatToStr(_)
NatToStr(n) == IF n < 10 THEN <<DigitChar(n)>> ELSE NatToStr(n \div 10) \o <<DigitChar(n % 10)>>

IntToStr(n) == IF n < 0 THEN <<"-">> \o NatToStr(0 - n) ELSE NatToStr(n)

(* str(x) *)
Str(v) ==
    CASE v.t = "str" -> v.s
      [] v.t = "int" -> IntToStr(v.n)
      [] v.t = "none" -> <<"N", "o", "n", "e">>
      [] OTHER -> v.s

RECURSIVE DigitsValue(_, _)
DigitsValue(s, acc) ==
    IF s = <<>> THEN acc
    ELSE IF Head(s) = "_" THEN DigitsValue(Tail(s), acc)
    ELSE DigitsValue(Tail(s), 10 * acc + DigitVal(Head(s)))

(* the digit part of an int literal: digits, single underscores between them *)
IsIntBody(s) ==
    /\ s # <<>>
    /\ CharSet(s) \subseteq Digits \cup {"_"}
    /\ s[1] \in Digits
    /\ s[Len(s)] \in Digits
    /\ \A i \in 1..(Len(s) - 1) : ~(s[i] = "_" /\ s[i + 1] = "_")

(* int(s) of a str: surrounding whitespace and one sign are allowed *)
ParseInt(s) ==
    LET t == Strip(s)
        signed == t # <<>> /\ Head(t) \in {"+", "-"}
        body == IF signed THEN Tail(t) ELSE t
    IN  IF IsIntBody(body)
        THEN [ok |-> TRUE,
              n |-> IF signed /\ Head(t) = "-" THEN 0 - DigitsValue(body, 0)
                    ELSE DigitsValue(body, 0)]
        ELSE [ok |-> FALSE, n |-> 0]

RECURSIVE IndexOf(_, _, _)
IndexOf(s, c, i) ==
    IF i > Len(s) THEN 0 ELSE IF s[i] = c THEN i ELSE IndexOf(s, c, i + 1)

(* s.split(sep, maxsplit); maxsplit = -1 splits at every separator *)
RECURSIVE Split(_, _, _)
Split(s, sep, maxsplit) ==
    LET i == IndexOf(s, sep, 1)
    IN  IF maxsplit = 0 \/ i = 0 THEN <<s>>
        ELSE <<SubSeq(s, 1, i - 1)>> \o Split(SubSeq(s, i + 1, Len(s)), sep, maxsplit - 1)

----------------------------------------------------------------------------
(* Chromosome *)

CHROMOSOME_MAP_SwappedXY ==
    (<<"X">> :> 24) @@ (<<"Y">> :> 23) @@ (<<"M", "T">> :> 25)

CHROMOSOME_MAP ==
    (<<"X">> :> 23) @@ (<<"Y">> :> 24) @@ (<<"M", "T">> :> 25)

chromosome_to_integer(chromosome) ==
    LET chrom_string == Strip(Str(chromosome))
        chrom == ParseInt(chrom_string)
    IN  IF chrom.ok THEN Ok(IntV(chrom.n))
        ELSE IF chrom_string \in DOMAIN CHROMOSOME_MAP
             THEN Ok(IntV(CHROMOSOME_MAP[chrom_string]))
             ELSE Err("InvalidChromosome", chromosome, {})

ChromosomeGe == 1
ChromosomeLe == 26

(* int with ge/le on a value that is already an int *)
IntInRange(v, lo, hi) ==
    IF v.n < lo \/ v.n > hi THEN Err("InvalidRange", v, {}) ELSE Ok(v)

ChromosomeNoRange(raw) == chromosome_to_integer(raw)

(* the Chromosome field: BeforeValidator, then int with ge=1, le=26 *)
Chromosome(raw) ==
    LET before == chromosome_to_integer(raw)
    IN  IF ~before.ok THEN before
        ELSE IntInRange(before.val, ChromosomeGe, ChromosomeLe)

BasePairLocationGt == 0

(* the BasePairLocation field: int (a decimal str is parsed), gt=0 *)
BasePairLocation(raw) ==
    LET parsed == IF raw.t = "str" THEN ParseInt(raw.s) ELSE [ok |-> raw.t = "int", n |-> raw.n]
    IN  IF ~parsed.ok THEN Err("InvalidType", raw, {})
        ELSE IF parsed.n > BasePairLocationGt THEN Ok(IntV(parsed.n))
        ELSE Err("InvalidRange", IntV(parsed.n), {})

----------------------------------------------------------------------------
(* Alleles *)

VALID_ALLELES_NoG == {"A", "C", "T"}

VALID_ALLELES == {"A", "C", "T", "G"}

is_valid_sequence_FirstBad(allele) ==
    LET bad_allele == CharSet(allele.s) \ VALID_ALLELES
    IN  IF bad_allele # {}
        THEN Err("InvalidAllele", allele,
                 {allele.s[CHOOSE i \in 1..Len(allele.s) :
                      /\ allele.s[i] \in bad_allele
                      /\ \A j \in 1..(i - 1) : allele.s[j] \notin bad_allele]})
        ELSE Ok(allele)

is_valid_sequence(allele) ==
    LET bad_allele == CharSet(allele.s) \ VALID_ALLELES
    IN  IF bad_allele # {} THEN Err("InvalidAllele", allele, bad_allele) ELSE Ok(allele)

EffectAlleleMinLength == 1

(* the EffectAllele field: str with min_length=1, then AfterValidator *)
EffectAllele(raw) ==
    IF raw.t # "str" THEN Err("InvalidType", raw, {})
    ELSE IF Len(raw.s) < EffectAlleleMinLength THEN Err("InvalidLength", raw, {})
    ELSE is_valid_sequence(raw)

----------------------------------------------------------------------------
(* Missing values *)

NA == <<"N", "A">>
HashNA == <<"#", "N", "A">>

(* str.lower() on the letters of the NA tokens *)
Lower(c) == CASE c = "N" -> "n" [] c = "A" -> "a" [] OTHER -> c

coerce_na_to_none_AnyCase(x) ==
    IF x.t = "str" /\ [i \in 1..Len(x.s) |-> Lower(x.s[i])] \in {<<"n", "a">>, <<"#", "n", "a">>}
    THEN NoneV ELSE x

coerce_na_to_none(x) ==
    IF x = StrV(NA) \/ x = StrV(HashNA) THEN NoneV ELSE x

(* float validation: an int or a decimal or nan literal converts, None does not *)
FloatType(v) ==
    CASE v.t = "float" -> Ok(v)
      [] v.t = "int" -> Ok(FloatV(v.n))
      [] v.t = "str" ->
            IF ParseInt(v.s).ok THEN Ok(FloatV(ParseInt(v.s).n))
            ELSE IF [i \in 1..Len(v.s) |-> Lower(v.s[i])] = <<"n", "a", "n">>
                 THEN Ok([t |-> "float", s |-> <<"n", "a", "n">>, n |-> 0])
                 ELSE Err("InvalidType", v, {})
      [] OTHER -> Err("InvalidType", v, {})

(* the Beta field: BeforeValidator(coerce_na_to_none), then float *)
Beta(raw) == FloatType(coerce_na_to_none(raw))

(* class RefAlleleState(Enum, str): Enum is not the last base, so the class
   statement raises TypeError and neither the class nor RefAllele exists *)
RefAlleleStateDefined == FALSE

RefAlleleStateValues == {<<"E", "A">>, <<"O", "A">>}

(* the RefAllele field: BeforeValidator(coerce_na_to_none), then Optional[enum] *)
RefAllele(raw) ==
    IF ~RefAlleleStateDefined THEN Err("ClassDefinitionError", raw, {})
    ELSE LET before == coerce_na_to_none(raw)
         IN  IF before = NoneV THEN Ok(NoneV)
             ELSE IF before.t = "str" /\ before.s \in RefAlleleStateValues
                  THEN Ok(EnumV(before.s))
                  ELSE Err("InvalidType", before, {})

----------------------------------------------------------------------------
(* VariantId *)

VariantIdPartsSplitAll(s) == Split(s, "_", -1)

(* variant_id.split("_", 3) *)
VariantIdParts(s) == Split(s, "_", 3)

(* Chromosome(chrom), BasePairLocation(pos): calling the Annotated alias
   constructs its origin type, int(...); no validator of the field runs *)
AnnotatedIntCall(s) ==
    IF ParseInt(s).ok THEN Ok(IntV(ParseInt(s).n)) ELSE Err("IntLiteralError", StrV(s), {})

(* EffectAllele(ref), EffectAllele(alt): str(...) of a str *)
AnnotatedStrCall(s) == Ok(StrV(s))

validate_variant_id(variant_id) ==
    LET parts == VariantIdParts(variant_id.s)
    IN  IF Len(parts) # 4 THEN Err("MalformedIdentifier", variant_id, {})
        ELSE IF ~AnnotatedIntCall(parts[1]).ok THEN AnnotatedIntCall(parts[1])
        ELSE IF ~AnnotatedIntCall(parts[2]).ok THEN AnnotatedIntCall(parts[2])
        ELSE IF ~AnnotatedStrCall(parts[3]).ok THEN AnnotatedStrCall(parts[3])
        ELSE IF ~AnnotatedStrCall(parts[4]).ok THEN AnnotatedStrCall(parts[4])
        ELSE Ok(variant_id)

AlleleRunOrEmpty(s) == CharSet(s) \subseteq {"A", "C", "G", "T"}

(* [ACGT]+ *)
AlleleRun(s) == s # <<>> /\ CharSet(s) \subseteq {"A", "C", "G", "T"}

(* [0-9]+ *)
DigitRun(s) == s # <<>> /\ CharSet(s) \subseteq Digits

(* ^([0-9]{1,2}|X|Y|MT)_[0-9]+_[ACGT]+_[ACGT]+$ : no class of the pattern holds
   "_", so a match is exactly three "_" between four runs *)
VariantIdPattern(s) ==
    LET runs == Split(s, "_", -1)
    IN  /\ Len(runs) = 4
        /\ \/ DigitRun(runs[1]) /\ Len(runs[1]) <= 2
           \/ runs[1] \in {<<"X">>, <<"Y">>, <<"M", "T">>}
        /\ DigitRun(runs[2])
        /\ AlleleRun(runs[3])
        /\ AlleleRun(runs[4])

(* the VariantId field: str with the pattern, then AfterValidator *)
VariantId(raw) ==
    IF raw.t # "str" THEN Err("InvalidType", raw, {})
    ELSE IF ~VariantIdPattern(raw.s) THEN Err("InvalidPattern", raw, {})
    ELSE validate_variant_id(raw)

----------------------------------------------------------------------------
(* Inputs *)

RECURSIVE StringsUpTo(_, _)
StringsUpTo(chars, n) ==
    IF n = 0 THEN {<<>>}
    ELSE LET shorter == StringsUpTo(chars, n - 1)
         IN  shorter \cup {<<c>> \o s : c \in chars, s \in {x \in shorter : Len(x) = n - 1}}

RECURSIVE Join(_)
Join(parts) ==
    IF Len(parts) = 1 THEN parts[1] ELSE parts[1] \o <<"_">> \o Join(Tail(parts))

ChromChars == Digits \cup {"X", "Y", "M", "T", "x", " ", "-", "+", "_"}

ChromTokens ==
    {<<"m", "t">>, <<"c", "h", "r", "1">>, <<" ", "X", " ">>, <<" ", "2", "2", " ">>,
     <<"M", "T", " ">>, <<"1", "_", "0">>, <<"-", "1", "0">>}

ChromInputs ==
    {StrV(s) : s \in StringsUpTo(ChromChars, MaxStrLen) \cup ChromTokens}
        \cup {IntV(n) : n \in -1..MaxChromNum} \cup {NoneV}

PosInputs ==
    {IntV(n) : n \in -1..MaxPosNum} \cup {StrV(IntToStr(n)) : n \in -1..MaxPosNum}
        \cup {StrV(<<"1", "0", "0", "0">>), StrV(<<"a">>), StrV(<<>>), NoneV}

AlleleChars == {"A", "C", "G", "T", "N", "a"}

AlleleInputs == {StrV(s) : s \in StringsUpTo(AlleleChars, MaxAlleleLen)}

NaChars == {"N", "A", "#", "n", "a"}

NaInputs ==
    {StrV(s) : s \in StringsUpTo(NaChars, MaxNaLen)}
        \cup {StrV(IntToStr(n)) : n \in -1..MaxPosNum}
        \cup {IntV(n) : n \in -1..MaxPosNum} \cup {NoneV}

RefAlleleInputs == NaInputs \cup {StrV(<<"E", "A">>), StrV(<<"O", "A">>), StrV(<<"X", "X">>)}

ChromParts ==
    {IntToStr(n) : n \in -1..MaxChromNum}
        \cup {<<"X">>, <<"Y">>, <<"M", "T">>, <<"x">>, <<>>, <<"9", "9">>, <<"0", "1">>}

PosParts ==
    {IntToStr(n) : n \in -1..MaxPosNum} \cup {<<"1", "2", "3", "4", "5">>, <<>>, <<"a">>}

AlleleParts == {<<>>, <<"A">>, <<"G">>, <<"T">>, <<"N">>, <<"a">>, <<"A", "C">>}

ExtraParts == StringsUpTo({"T"}, MaxExtraParts) \ {<<>>}

(* identifiers of one to four parts, and of four parts followed by more "_" *)
VariantIdStrings ==
    {c : c \in ChromParts}
        \cup {Join(<<c, p>>) : c \in ChromParts, p \in PosParts}
        \cup {Join(<<c, p, r>>) : c \in ChromParts, p \in PosParts, r \in AlleleParts}
        \cup {Join(<<c, p, r, a>>) :
                c \in ChromParts, p \in PosParts, r \in AlleleParts, a \in AlleleParts}
        \cup {Join(<<c, p, r, a>>) \o <<"_">> \o Join([i \in 1..Len(e) |-> <<e[i]>>]) :
                c \in ChromParts, p \in PosParts, r \in AlleleParts,
                a \in AlleleParts, e \in ExtraParts}

VariantIdInputs == {StrV(s) : s \in VariantIdStrings}

----------------------------------------------------------------------------
(* The state machine *)

Init ==
    /\ call = "none"
    /\ arg = NoneV
    /\ res = NoResult

CallChromosomeToInteger ==
    /\ call = "none"
    /\ \E x \in ChromInputs :
        /\ call' = "chromosome_to_integer"
        /\ arg' = x
        /\ res' = chromosome_to_integer(x)

ValidateChromosome ==
    /\ call = "none"
    /\ \E x \in ChromInputs :
        /\ call' = "Chromosome"
        /\ arg' = x
        /\ res' = Chromosome(x)

ValidateBasePairLocation ==
    /\ call = "none"
    /\ \E x \in PosInputs :
        /\ call' = "BasePairLocation"
        /\ arg' = x
        /\ res' = BasePairLocation(x)

CallIsValidSequence ==
    /\ call = "none"
    /\ \E x \in AlleleInputs :
        /\ call' = "is_valid_sequence"
        /\ arg' = x
        /\ res' = is_valid_sequence(x)

(* the value a validation returned is validated again *)
Revalidate ==
    /\ call \in {"is_valid_sequence", "revalidate"}
    /\ res.ok
    /\ call' = "revalidate"
    /\ arg' = res.val
    /\ res' = is_valid_sequence(res.val)

ValidateEffectAllele ==
    /\ call = "none"
    /\ \E x \in AlleleInputs \cup {NoneV} :
        /\ call' = "EffectAllele"
        /\ arg' = x
        /\ res' = EffectAllele(x)

CallCoerceNaToNone ==
    /\ call = "none"
    /\ \E x \in NaInputs :
        /\ call' = "coerce_na_to_none"
        /\ arg' = x
        /\ res' = Ok(coerce_na_to_none(x))

ValidateBeta ==
    /\ call = "none"
    /\ \E x \in NaInputs :
        /\ call' = "Beta"
        /\ arg' = x
        /\ res' = Beta(x)

ValidateRefAllele ==
    /\ call = "none"
    /\ \E x \in RefAlleleInputs :
        /\ call' = "RefAllele"
        /\ arg' = x
        /\ res' = RefAllele(x)

CallValidateVariantId ==
    /\ call = "none"
    /\ \E x \in VariantIdInputs :
        /\ call' = "validate_variant_id"
        /\ arg' = x
        /\ res' = validate_variant_id(x)

ValidateVariantId ==
    /\ call = "none"
    /\ \E x \in VariantIdInputs \cup {NoneV} :
        /\ call' = "VariantId"
        /\ arg' = x
        /\ res' = VariantId(x)

(* the caller takes the outcome; the next value is validated from scratch *)
Return ==
    /\ call # "none"
    /\ call' = "none"
    /\ arg' = NoneV
    /\ res' = NoResult

Next ==
    \/ CallChromosomeToInteger
    \/ ValidateChromosome
    \/ ValidateBasePairLocation
    \/ CallIsValidSequence
    \/ Revalidate
    \/ ValidateEffectAllele
    \/ CallCoerceNaToNone
    \/ ValidateBeta
    \/ ValidateRefAllele
    \/ CallValidateVariantId
    \/ ValidateVariantId
    \/ Return

Spec == Init /\ [][Next]_vars

----------------------------------------------------------------------------
(* Properties *)

ACGT == {"A", "C", "G", "T"}

NumUnderscores(s) == Cardinality({i \in 1..Len(s) : s[i] = "_"})

(* the chromosome table of the format: "1".."22", X, Y, MT *)
ExpectedChromosome ==
    (<<"1">> :> 1) @@ (<<"2">> :> 2) @@ (<<"3">> :> 3) @@ (<<"4">> :> 4)
    @@ (<<"5">> :> 5) @@ (<<"6">> :> 6) @@ (<<"7">> :> 7) @@ (<<"8">> :> 8)
    @@ (<<"9">> :> 9) @@ (<<"1", "0">> :> 10) @@ (<<"1", "1">> :> 11)
    @@ (<<"1", "2">> :> 12) @@ (<<"1", "3">> :> 13) @@ (<<"1", "4">> :> 14)
    @@ (<<"1", "5">> :> 15) @@ (<<"1", "6">> :> 16) @@ (<<"1", "7">> :> 17)
    @@ (<<"1", "8">> :> 18) @@ (<<"1", "9">> :> 19) @@ (<<"2", "0">> :> 20)
    @@ (<<"2", "1">> :> 21) @@ (<<"2", "2">> :> 22)
    @@ (<<"X">> :> 23) @@ (<<"Y">> :> 24) @@ (<<"M", "T">> :> 25)

(* C1: chromosome_to_integer maps an input whose trimmed string form is
   "1".."22" to 1..22 and X, Y, MT to 23, 24, 25; every other token that is
   no integer literal (x, mt, chr1, the empty string among them) raises
   InvalidChromosome carrying the raw input as it was given. *)
C1_ChromosomeNormalization ==
    call = "chromosome_to_integer" =>
        LET token == Strip(Str(arg))
        IN  /\ token \in DOMAIN ExpectedChromosome =>
                res.ok /\ res.val = IntV(ExpectedChromosome[token])
            /\ (token \notin DOMAIN ExpectedChromosome /\ ~ParseInt(token).ok) =>
                ~res.ok /\ res.err = "InvalidChromosome" /\ res.raw = arg
            /\ token \in {<<"x">>, <<"m", "t">>, <<"c", "h", "r", "1">>, <<>>} =>
                ~res.ok /\ res.err = "InvalidChromosome" /\ res.raw = arg

C1_Witness ==
    /\ call = "chromosome_to_integer"
    /\ arg = StrV(<<"M", "T", " ">>)
    /\ res.ok
    /\ res.val = IntV(25)

(* C2: the Chromosome field succeeds exactly for the inputs that normalize
   to an integer in 1..26 and then yields that integer; an input that
   normalizes to an integer outside 1..26 ("0", "-1", "27", "99") fails the
   range check, which is applied to the normalized integer. *)
C2_ChromosomeRange ==
    call = "Chromosome" =>
        LET normalized == chromosome_to_integer(arg)
            inRange == normalized.ok /\ normalized.val.n >= 1 /\ normalized.val.n <= 26
        IN  /\ (res.ok <=> inRange)
            /\ res.ok => res.val = normalized.val
            /\ (normalized.ok /\ ~inRange) =>
                res.err = "InvalidRange" /\ res.raw = normalized.val
            /\ Str(arg) \in {<<"0">>, <<"-", "1">>, <<"2", "7">>, <<"9", "9">>} => ~res.ok

C2_Witness ==
    /\ call = "Chromosome"
    /\ arg = StrV(<<"2", "7">>)
    /\ chromosome_to_integer(arg).ok
    /\ ~res.ok
    /\ res.err = "InvalidRange"

(* C3: is_valid_sequence accepts every string over {A,C,T,G} and returns it
   unchanged, and validating the returned value again gives the same
   outcome. *)
C3_AlleleIdempotent ==
    /\ [](call = "is_valid_sequence" /\ CharSet(arg.s) \subseteq ACGT =>
            res.ok /\ res.val = arg)
    /\ [][call' = "revalidate" => res'.ok /\ res'.val = res.val /\ res' = res]_vars

C3_Witness ==
    /\ call = "revalidate"
    /\ arg = StrV(<<"G", "A", "G">>)
    /\ res.ok
    /\ res.val = arg

(* C4: is_valid_sequence rejects every string holding a character outside
   {A,C,T,G}, lowercase included, with InvalidAllele, and reports exactly the
   characters of the input that are outside {A,C,T,G}. *)
C4_AlleleRejected ==
    call = "is_valid_sequence" /\ ~(CharSet(arg.s) \subseteq ACGT) =>
        /\ ~res.ok
        /\ res.err = "InvalidAllele"
        /\ res.bad = {c \in CharSet(arg.s) : c \notin ACGT}

C4_Witness ==
    /\ call = "is_valid_sequence"
    /\ arg = StrV(<<"a", "C", "N">>)
    /\ ~res.ok
    /\ res.bad = {"a", "N"}

(* C5 as claimed: coerce_na_to_none returns None exactly when the input is
   the string "NA" or "#NA". *)
C5_NoneOnlyForNaTokens ==
    call = "coerce_na_to_none" =>
        (res.val = NoneV <=> arg \in {StrV(NA), StrV(HashNA)})

(* C5: coerce_na_to_none never raises; it returns None exactly when the
   input is the string "NA" or "#NA" or is None already, and returns every
   input other than "NA" and "#NA" ("na", "Na", "#na", "", 0) unchanged. *)
C5_CoerceNaToNone ==
    call = "coerce_na_to_none" =>
        /\ res.ok
        /\ (res.val = NoneV) <=> (arg \in {StrV(NA), StrV(HashNA), NoneV})
        /\ arg \notin {StrV(NA), StrV(HashNA)} => res.val = arg

C5_Witness ==
    /\ call = "coerce_na_to_none"
    /\ arg = StrV(HashNA)
    /\ res.val = NoneV

(* C6: validating the token "NA" or "#NA" as Beta or as RefAllele raises
   nothing and ends with None. *)
C6_NaTokenNeverErrors ==
    call \in {"Beta", "RefAllele"} /\ arg \in {StrV(NA), StrV(HashNA)} =>
        res.ok /\ res.val = NoneV

(* C7 as claimed: VariantId validation of an input with fewer than three
   "_" fails with MalformedIdentifier. *)
C7_FieldMalformedIdentifier ==
    call = "VariantId" /\ arg.t = "str" /\ NumUnderscores(arg.s) < 3 =>
        ~res.ok /\ res.err = "MalformedIdentifier"

(* C7: validate_variant_id splits at the first three "_" only: an input with
   fewer than three "_" raises MalformedIdentifier, an input with three or
   more never does (a fourth "_" stays in the last part). Through the
   VariantId field the pattern is checked first, so there an input with
   fewer than three "_" fails with InvalidPattern. *)
C7_MalformedIdentifier ==
    /\ call = "validate_variant_id" /\ NumUnderscores(arg.s) < 3 =>
        ~res.ok /\ res.err = "MalformedIdentifier" /\ res.raw = arg
    /\ call = "validate_variant_id" /\ NumUnderscores(arg.s) >= 3 =>
        res.err # "MalformedIdentifier"
    /\ call = "VariantId" /\ arg.t = "str" /\ NumUnderscores(arg.s) < 3 =>
        ~res.ok /\ res.err = "InvalidPattern"

C7_Witness ==
    /\ call = "validate_variant_id"
    /\ arg = StrV(<<"1", "_", "1", "_", "A", "_", "G", "_", "T">>)
    /\ res.ok

(* the four parts of an identifier with exactly three "_" *)
PartsOf(v) == Split(v.s, "_", -1)

(* C8: VariantId validation of an input of four parts fails whenever part 1
   is no valid Chromosome, part 2 no valid BasePairLocation, or part 3 or 4
   holds a character outside {A,C,T,G}. *)
C8_InvalidPartRejected ==
    call = "VariantId" /\ arg.t = "str" /\ NumUnderscores(arg.s) = 3 =>
        LET parts == PartsOf(arg)
            somePartInvalid ==
                \/ ~Chromosome(StrV(parts[1])).ok
                \/ ~BasePairLocation(StrV(parts[2])).ok
                \/ ~(CharSet(parts[3]) \subseteq ACGT)
                \/ ~(CharSet(parts[4]) \subseteq ACGT)
        IN  somePartInvalid => ~res.ok

(* C9: VariantId validation accepts <c>_<p>_<r>_<a> and returns it unchanged
   when c is a decimal string of 1..26 or X, Y or MT, p a decimal string of
   an integer > 0, and r and a non-empty strings over {A,C,T,G}. *)
C9_ValidIdentifierAccepted ==
    call = "VariantId" /\ arg.t = "str" /\ NumUnderscores(arg.s) = 3 =>
        LET parts == PartsOf(arg)
            allPartsValid ==
                /\ \/ parts[1] \in {IntToStr(n) : n \in 1..26}
                   \/ parts[1] \in {<<"X">>, <<"Y">>, <<"M", "T">>}
                /\ parts[2] # <<>> /\ CharSet(parts[2]) \subseteq Digits
                /\ ParseInt(parts[2]).n > 0
                /\ parts[3] # <<>> /\ CharSet(parts[3]) \subseteq ACGT
                /\ parts[4] # <<>> /\ CharSet(parts[4]) \subseteq ACGT
        IN  allPartsValid => (res.ok /\ res.val = arg)

(* C10 as claimed: VariantId validation does not reject an identifier with a
   valid chromosome and position because its reference or alternate allele
   part is empty. *)
C10_EmptyAlleleAccepted ==
    call = "VariantId" /\ arg.t = "str" /\ NumUnderscores(arg.s) = 3 =>
        LET parts == PartsOf(arg)
            validButEmptyAllele ==
                /\ parts[1] \in {IntToStr(n) : n \in 1..26}
                /\ parts[2] # <<>> /\ CharSet(parts[2]) \subseteq Digits
                /\ ParseInt(parts[2]).n > 0
                /\ CharSet(parts[3]) \subseteq ACGT
                /\ CharSet(parts[4]) \subseteq ACGT
                /\ parts[3] = <<>> \/ parts[4] = <<>>
        IN  validButEmptyAllele => res.ok

(* C10: the VariantId field rejects every identifier of four parts whose
   reference or alternate allele part is empty, with InvalidPattern (the
   pattern asks for one or more of A, C, G, T in each); validate_variant_id
   called on such an identifier itself accepts it when parts 1 and 2 are
   integer literals and returns it unchanged. *)
C10_EmptyAlleleRejectedByPattern ==
    /\ call = "VariantId" /\ arg.t = "str" /\ NumUnderscores(arg.s) = 3
            /\ (PartsOf(arg)[3] = <<>> \/ PartsOf(arg)[4] = <<>>) =>
        ~res.ok /\ res.err = "InvalidPattern"
    /\ call = "validate_variant_id" /\ NumUnderscores(arg.s) = 3
            /\ (PartsOf(arg)[3] = <<>> \/ PartsOf(arg)[4] = <<>>)
            /\ ParseInt(PartsOf(arg)[1]).ok /\ ParseInt(PartsOf(arg)[2]).ok =>
        res.ok /\ res.val = arg

C10_Witness ==
    /\ call = "VariantId"
    /\ arg = StrV(<<"1", "_", "1", "_", "_", "G">>)
    /\ ~res.ok
    /\ res.err = "InvalidPattern"

====
